---- MODULE Spec2Model ----
(***************************************************************************)
(* A model of the system importer: the upload route (archive staging,      *)
(* extraction and listing) and the deploy route (backup, copy, install,    *)
(* prisma, data copy, restart), as request handlers of one Node.js         *)
(* process.  A handler runs without interruption between two awaits, so    *)
(* every action below is the code from one await to the next; handlers of  *)
(* different requests interleave at the awaits.                            *)
(***************************************************************************)
EXTENDS Integers, Sequences, FiniteSets, TLC

VARIABLES
    deployStatus,       \* deploy-route.ts: let deployStatus
    extractionStatus,   \* upload-system/route.ts: let extractionStatus
    req,                \* the request handlers in flight or returned, by slot
    live,               \* the files of the application root (process.cwd())
    extracted,          \* the directory extracted-system under the root
    backupDir,          \* whether the directory .backup exists
    restartFile,        \* whether the file .restart exists
    started,            \* how many requests the server has accepted
    fname,              \* a file name under classification
    ftype,              \* the type detectFileType gave fname
    sharedStatus,       \* upload-system/status/route.ts: let sharedStatus
    allFiles,           \* the lines of a listing of files under enumeration
    allDirs,            \* the lines of a listing of directories likewise
    fileList            \* the entries built from the two listings

vars == <<deployStatus, extractionStatus, req, live, extracted, backupDir,
          restartFile, started, fname, ftype, sharedStatus, allFiles, allDirs,
          fileList>>

-----------------------------------------------------------------------------
(* Bounds *)

\* How many requests (of either route) may be in flight at once.
MaxInFlight == 2

\* How many requests the server accepts in all.
MaxRequests == 2

\* How many pieces a file name under classification is built from.
MaxPieces == 3

\* How many lines the listings under enumeration have at most: above the
\* caps of the entry list.
MaxFileLines == 502
MaxDirLines == 102

Slots == 1..MaxInFlight

-----------------------------------------------------------------------------
(* The file system: paths are sequences of components. *)

P_app     == <<"src", "app.ts">>
P_old     == <<"src", "old.ts">>
P_nested  == <<"src", "node_modules", "x.js">>
P_nm      == <<"node_modules", "y.js">>
P_git     == <<".git", "config">>
P_pkg     == <<"package.json">>
P_readme  == <<"README.md">>
P_schema  == <<"prisma", "schema.prisma">>
P_srcdb   == <<"mushaf_source.db">>
P_devdb   == <<"prisma", "dev.db">>

Paths == {P_app, P_old, P_nested, P_nm, P_git, P_pkg, P_readme, P_schema,
          P_srcdb, P_devdb}

\* What a file holds: nothing (the file is absent), what the application had
\* before any deploy, what the installer wrote, or the bytes of an archive.
ArchiveIds == {"A1", "A2", "A3", "A4"}
Tags == {"none", "old", "bun"} \cup ArchiveIds

\* The uploaded archives: the files they hold among Paths, and how many more
\* regular files and directories they hold under docs/ (outside Paths).
Archive(a) ==
    CASE a = "A1" -> [files |-> {P_app, P_nested, P_nm, P_git, P_pkg, P_readme,
                                 P_schema, P_srcdb},
                      extraFiles |-> 0, extraDirs |-> 0]
      [] a = "A2" -> [files |-> {}, extraFiles |-> 1100, extraDirs |-> 120]
      [] a = "A3" -> [files |-> {}, extraFiles |-> 0, extraDirs |-> 2]
      [] a = "A4" -> [files |-> {}, extraFiles |-> 0, extraDirs |-> 0]

NoFiles == [p \in Paths |-> "none"]

NoDir == [exists |-> FALSE, files |-> NoFiles, extraFiles |-> 0, extraDirs |-> 0]
EmptyDir == [NoDir EXCEPT !.exists = TRUE]

\* The application root before any deploy.
LiveTree(withPrisma) ==
    [p \in Paths |->
        IF p \in {P_app, P_old, P_nm, P_pkg} THEN "old"
        ELSE IF p = P_schema /\ withPrisma THEN "old"
        ELSE "none"]

Max(a, b) == IF a >= b THEN a ELSE b
Min(a, b) == IF a <= b THEN a ELSE b

\* Paths strictly below the top-level directory dir.
Under(dir) == {p \in Paths : Len(p) > 1 /\ p[1] = dir}

\* existsSync of a top-level directory, resp. a top-level file, of a tree.
HasDir(tree, dir) == \E p \in Under(dir) : tree[p] # "none"
HasFile(tree, f) == <<f>> \in Paths /\ tree[<<f>>] # "none"

-----------------------------------------------------------------------------
(* deploy-route.ts *)

excludeList == {"node_modules", ".next", ".git", "dev.log", "server.log",
                "extracted-system", ".backup"}

dirsToCopy == <<"src", "public", "prisma", "db", "mini-services", "examples">>
filesToCopy == <<"package.json", "tsconfig.json", "tailwind.config.ts",
                 "next.config.ts", "Caddyfile", "eslint.config.mjs",
                 "postcss.config.mjs">>

\* rsync --exclude=NAME leaves out every path with a component called NAME.
Excluded(p) == \E k \in 1..Len(p) : p[k] \in excludeList

\* rsync -av --exclude=... extracted-system/ root/ : every file of the source
\* that is not excluded is written over the root; nothing is deleted.
RsyncCopy(src, dst) ==
    [p \in Paths |-> IF src[p] # "none" /\ ~Excluded(p) THEN src[p] ELSE dst[p]]

\* rm -rf root/dir
RemoveDir(dst, dir) == [p \in Paths |-> IF p \in Under(dir) THEN "none" ELSE dst[p]]

\* cp -r extracted-system/dir/. root/dir/ : every file below dir.
CpDir(src, dst, dir) ==
    [p \in Paths |-> IF p \in Under(dir) /\ src[p] # "none" THEN src[p] ELSE dst[p]]

\* cp extracted-system/from root/to
CpFile(src, dst, from, to) == [dst EXCEPT ![to] = src[from]]


-----------------------------------------------------------------------------
(* A request handler: where it is suspended, its local variables, what it  *)
(* answered.  code = 0: no response yet; status = "none": the response     *)
(* body has no status field.  "seen" is the phase of the route's status    *)
(* record at the moment the handler returned.                              *)

IdleReq ==
    [kind |-> "none", pc |-> "idle", code |-> 0, status |-> "none",
     seen |-> "none",
     \* deploy: the entry of the fallback copy it is at (0: rsync worked), the
     \* non-fatal steps that failed, the skipped ones, whether it wrote .restart
     fb |-> 0, fails |-> {}, skipped |-> {}, sentinel |-> FALSE,
     \* the await whose failure the handler's catch caught ("": none), and
     \* whether no other request of the same route was in flight with it
     thrownAt |-> "", alone |-> TRUE,
     \* deploy: the live root as the run found it, and whether its rsync
     \* wrote before it failed
     liveAtStart |-> NoFiles, partial |-> FALSE,
     \* upload: the detected type, the archive, its temporary directory, the
     \* lines of the two listings, the count, and what the response lists
     \* extractionResult: "" (none yet), "ok" or "failed", and items.length
     fileType |-> "", archive |-> "none", tempDir |-> "none",
     tool |-> "", items |-> 0, files |-> 0, dirs |-> 0, totalFiles |-> 0,
     shown |-> [dirs |-> 0, files |-> 0], touched |-> FALSE]

InFlight(i) == req[i].pc \notin {"idle", "done"}

\* The slot the next request takes: the slots in turn, or else the first that
\* holds no handler in flight (0: none does).
Pick ==
    LET turn == (started % MaxInFlight) + 1
        S == {j \in Slots : ~InFlight(j)}
    IN  IF ~InFlight(turn) THEN turn
        ELSE IF S = {} THEN 0
        ELSE CHOOSE j \in S : \A m \in S : j <= m

Free(i) == started < MaxRequests /\ i = Pick

\* The handlers once a request of the route kind has entered slot i with the
\* record r: those of the same route in flight are no longer alone.
Enter(i, kind, r) ==
    [j \in Slots |->
        IF j = i
        THEN [r EXCEPT !.kind = kind,
                       !.alone = \A m \in Slots \ {i} :
                                    ~(InFlight(m) /\ req[m].kind = kind)]
        ELSE IF InFlight(j) /\ req[j].kind = kind
        THEN [req[j] EXCEPT !.alone = FALSE]
        ELSE req[j]]

At(i, kind, pc) == req[i].kind = kind /\ req[i].pc = pc

\* return NextResponse.json(...), with the status record as it then is.
Return(r, code, status, phase) ==
    [r EXCEPT !.pc = "done", !.code = code, !.status = status, !.seen = phase]

\* The same from the handler's catch, after the await at r.pc threw.
Thrown(r, phase) ==
    Return([r EXCEPT !.thrownAt = r.pc], 500, "error", phase)

-----------------------------------------------------------------------------
(* deploy-route.ts: POST *)

fbList == dirsToCopy \o filesToCopy

\* existsSync(srcDir) / existsSync(srcFile) for entry k of the fallback lists.
SrcExists(k) ==
    /\ extracted.exists
    /\ IF k <= Len(dirsToCopy)
       THEN HasDir(extracted.files, fbList[k])
       ELSE HasFile(extracted.files, fbList[k])

\* The next entry from k on that the loops of the fallback act on; 0: none.
FbNext(k) ==
    LET S == {j \in k..Len(fbList) : SrcExists(j)}
    IN  IF S = {} THEN 0 ELSE CHOOSE j \in S : \A m \in S : j <= m

ResetStatus ==
    [status |-> "deploying", message |-> "start", progress |-> 5,
     error |-> "", step |-> "init"]

BackupStatus(st) ==
    [st EXCEPT !.message = "backup", !.step = "backup", !.progress = 10]

CopyStatus(st) ==
    [st EXCEPT !.message = "copy", !.step = "copy", !.progress = 20]

\* Lines 97-104: the copy is over, the install begins.
InstallingStatus(st) ==
    [st EXCEPT !.status = "installing", !.message = "installing",
               !.step = "install", !.progress = 60]

\* The messages that tell of a step that failed: line 116 writes the only one.
WarningMessages == {"installWarning"}

\* MigratingStatus with the phase of the copy step.
MigratingStatus_Regress(st) ==
    [st EXCEPT !.status = "deploying", !.message = "migrating",
               !.step = "prisma", !.progress = 85]

\* Lines 112-124: the install is over (its message is overwritten at once).
MigratingStatus(st) ==
    [st EXCEPT !.status = "migrating", !.message = "migrating",
               !.step = "prisma", !.progress = 85]

SuccessStatus(st) ==
    [st EXCEPT !.status = "success", !.message = "deployed", !.progress = 100]

\* catch (error): lines 174-183.
DeployCatch(i, msg) ==
    /\ deployStatus' = [deployStatus EXCEPT !.status = "error", !.error = msg]
    /\ req' = [req EXCEPT ![i] = Thrown(@, deployStatus'.status)]

\* Lines 153-159 up to await writeFile(restartFile).
EnterRestart(i, r, st) ==
    /\ deployStatus' = SuccessStatus(st)
    /\ req' = [req EXCEPT ![i] = [r EXCEPT !.pc = "restart"]]

\* Lines 136-146 up to the first await, or on to the restart.
EnterDataCopy(i, r, st) ==
    IF extracted.exists /\ extracted.files[P_srcdb] # "none"
    THEN /\ deployStatus' = st
         /\ req' = [req EXCEPT ![i] =
                [r EXCEPT !.pc = IF HasDir(live, "prisma") THEN "cpDb"
                                 ELSE "mkdirPrisma"]]
    ELSE EnterRestart(i, [r EXCEPT !.skipped = @ \cup {"db"}], st)

\* Lines 97-107 up to await execAsync('bun install').
EnterInstall(i, r, st) ==
    /\ deployStatus' = InstallingStatus([st EXCEPT !.progress = 50, !.message = "copied"])
    /\ req' = [req EXCEPT ![i] = [r EXCEPT !.pc = "install"]]

\* Lines 76-94 from entry k up to the next await, lv being the root as it is.
EnterFallback(i, r, k, lv) ==
    LET j == FbNext(k)
    IN  IF j = 0
        THEN EnterInstall(i, [r EXCEPT !.fb = Len(fbList) + 1], deployStatus)
        ELSE /\ req' = [req EXCEPT ![i] =
                    [r EXCEPT !.fb = j,
                              !.pc = IF j > Len(dirsToCopy) THEN "fbCpFile"
                                     ELSE IF HasDir(lv, fbList[j]) THEN "fbRm"
                                     ELSE "fbMkdir"]]
             /\ UNCHANGED deployStatus

\* DeployStart without the check of lines 24-27.
DeployStart_NoInitCheck(i) ==
    /\ Free(i)
    /\ IF ~backupDir
       THEN /\ deployStatus' = BackupStatus(ResetStatus)
            /\ req' = Enter(i, "deploy", [IdleReq EXCEPT !.liveAtStart = live, !.pc = "mkdirBackup"])
       ELSE /\ deployStatus' = CopyStatus(BackupStatus(ResetStatus))
            /\ req' = Enter(i, "deploy", [IdleReq EXCEPT !.liveAtStart = live, !.pc = "rsync"])
    /\ started' = started + 1
    /\ UNCHANGED <<sharedStatus, allFiles, allDirs, fileList, extractionStatus, live, extracted, backupDir, restartFile,
                   fname, ftype>>

\* DeployStart refusing a deploy once a deploy has written the sentinel.
DeployStart_RejectsReentry(i) ==
    /\ Free(i)
    /\ IF ~extracted.exists \/ restartFile
       THEN /\ req' = Enter(i, "deploy",
                            Return([IdleReq EXCEPT !.liveAtStart = live], 400, "none", deployStatus.status))
            /\ UNCHANGED deployStatus
       ELSE IF ~backupDir
       THEN /\ deployStatus' = BackupStatus(ResetStatus)
            /\ req' = Enter(i, "deploy", [IdleReq EXCEPT !.liveAtStart = live, !.pc = "mkdirBackup"])
       ELSE /\ deployStatus' = CopyStatus(BackupStatus(ResetStatus))
            /\ req' = Enter(i, "deploy", [IdleReq EXCEPT !.liveAtStart = live, !.pc = "rsync"])
    /\ started' = started + 1
    /\ UNCHANGED <<sharedStatus, allFiles, allDirs, fileList, extractionStatus, live, extracted, backupDir, restartFile,
                   fname, ftype>>

\* Lines 19-46 or 19-67: up to await mkdir(backupDir) or await execAsync(rsync).
DeployStart(i) ==
    /\ Free(i)
    /\ IF ~extracted.exists
       THEN /\ req' = Enter(i, "deploy",
                            Return([IdleReq EXCEPT !.liveAtStart = live], 400, "none", deployStatus.status))
            /\ UNCHANGED deployStatus
       ELSE IF ~backupDir
       THEN /\ deployStatus' = BackupStatus(ResetStatus)
            /\ req' = Enter(i, "deploy", [IdleReq EXCEPT !.liveAtStart = live, !.pc = "mkdirBackup"])
       ELSE /\ deployStatus' = CopyStatus(BackupStatus(ResetStatus))
            /\ req' = Enter(i, "deploy", [IdleReq EXCEPT !.liveAtStart = live, !.pc = "rsync"])
    /\ started' = started + 1
    /\ UNCHANGED <<sharedStatus, allFiles, allDirs, fileList, extractionStatus, live, extracted, backupDir, restartFile,
                   fname, ftype>>

\* await mkdir(backupDir) is over: lines 45-67.
DeployMkdirBackup(i, ok) ==
    /\ At(i, "deploy", "mkdirBackup")
    /\ IF ok
       THEN /\ backupDir' = TRUE
            /\ deployStatus' = CopyStatus(deployStatus)
            /\ req' = [req EXCEPT ![i].pc = "rsync"]
       ELSE /\ DeployCatch(i, "mkdir")
            /\ UNCHANGED backupDir
    /\ UNCHANGED <<sharedStatus, allFiles, allDirs, fileList, extractionStatus, live, extracted, restartFile, fname, ftype, started>>

\* What a failing rsync may have written before it failed: nothing, or every
\* file it was to write (it fails on exit, on an attribute, on a vanished file).
RsyncPartial == {FALSE, TRUE}

\* await execAsync(rsync) is over: lines 67-107.
DeployRsync(i, ok, part) ==
    /\ At(i, "deploy", "rsync")
    /\ IF ok
       THEN /\ extracted.exists
            /\ ~part
            /\ live' = RsyncCopy(extracted.files, live)
            /\ EnterInstall(i, req[i], deployStatus)
       ELSE /\ part => extracted.exists
            /\ live' = IF part THEN RsyncCopy(extracted.files, live) ELSE live
            /\ EnterFallback(i, [req[i] EXCEPT !.partial = part], 1, live')
    /\ UNCHANGED <<sharedStatus, allFiles, allDirs, fileList, extractionStatus, extracted, backupDir, restartFile, fname, ftype, started>>

\* await rm(destDir) of the fallback is over: lines 81-83.
DeployFbRm(i, ok) ==
    /\ At(i, "deploy", "fbRm")
    /\ IF ok
       THEN /\ live' = RemoveDir(live, fbList[req[i].fb])
            /\ req' = [req EXCEPT ![i].pc = "fbMkdir"]
            /\ UNCHANGED deployStatus
       ELSE /\ DeployCatch(i, "rm")
            /\ UNCHANGED live
    /\ UNCHANGED <<sharedStatus, allFiles, allDirs, fileList, extractionStatus, extracted, backupDir, restartFile, fname, ftype, started>>

\* await mkdir(destDir) of the fallback is over: lines 83-84.
DeployFbMkdir(i, ok) ==
    /\ At(i, "deploy", "fbMkdir")
    /\ IF ok
       THEN /\ req' = [req EXCEPT ![i].pc = "fbCpDir"]
            /\ UNCHANGED deployStatus
       ELSE DeployCatch(i, "mkdir")
    /\ UNCHANGED <<sharedStatus, allFiles, allDirs, fileList, extractionStatus, live, extracted, backupDir, restartFile,
                   fname, ftype, started>>

\* DeployFbCpDir with the failure of cp caught where it happens, as the
\* failure of the install is: the deploy goes on.
DeployFbCpDir_Swallowed(i, ok) ==
    /\ At(i, "deploy", "fbCpDir")
    /\ IF ok
       THEN /\ SrcExists(req[i].fb)
            /\ live' = CpDir(extracted.files, live, fbList[req[i].fb])
            /\ EnterFallback(i, req[i], req[i].fb + 1, live')
       ELSE /\ UNCHANGED live
            /\ EnterFallback(i, [req[i] EXCEPT !.thrownAt = "fbCpDir"],
                             req[i].fb + 1, live)
    /\ UNCHANGED <<sharedStatus, allFiles, allDirs, fileList, extractionStatus, extracted, backupDir, restartFile, fname, ftype, started>>

\* await execAsync(cp -r srcDir/. destDir/) is over: lines 84-92 or on.
DeployFbCpDir(i, ok) ==
    /\ At(i, "deploy", "fbCpDir")
    /\ IF ok
       THEN /\ SrcExists(req[i].fb)
            /\ live' = CpDir(extracted.files, live, fbList[req[i].fb])
            /\ EnterFallback(i, req[i], req[i].fb + 1, live')
       ELSE /\ DeployCatch(i, "cp")
            /\ UNCHANGED live
    /\ UNCHANGED <<sharedStatus, allFiles, allDirs, fileList, extractionStatus, extracted, backupDir, restartFile, fname, ftype, started>>

\* await execAsync(cp srcFile destFile) is over: lines 92-107.
DeployFbCpFile(i, ok) ==
    /\ At(i, "deploy", "fbCpFile")
    /\ IF ok
       THEN /\ SrcExists(req[i].fb)
            /\ live' = CpFile(extracted.files, live, <<fbList[req[i].fb]>>,
                              <<fbList[req[i].fb]>>)
            /\ EnterFallback(i, req[i], req[i].fb + 1, live')
       ELSE /\ DeployCatch(i, "cp")
            /\ UNCHANGED live
    /\ UNCHANGED <<sharedStatus, allFiles, allDirs, fileList, extractionStatus, extracted, backupDir, restartFile, fname, ftype, started>>

\* await execAsync('bun install') is over: lines 107-129, or on to 146 or 159.
DeployInstall(i, ok) ==
    /\ At(i, "deploy", "install")
    /\ live' = IF ok THEN [live EXCEPT ![P_nm] = "bun"] ELSE live
    /\ LET r  == IF ok THEN req[i] ELSE [req[i] EXCEPT !.fails = @ \cup {"install"}]
           st == MigratingStatus([deployStatus EXCEPT
                    !.message = IF ok THEN "installed" ELSE "installWarning",
                    !.progress = 80])
       IN  IF live[P_schema] # "none"
           THEN /\ deployStatus' = st
                /\ req' = [req EXCEPT ![i] = [r EXCEPT !.pc = "prisma"]]
           ELSE EnterDataCopy(i, [r EXCEPT !.skipped = @ \cup {"prisma"}], st)
    /\ UNCHANGED <<sharedStatus, allFiles, allDirs, fileList, extractionStatus, extracted, backupDir, restartFile, fname, ftype, started>>

\* await execAsync('bun run db:generate') is over: lines 129-146, or on to 159.
DeployPrisma(i, ok) ==
    /\ At(i, "deploy", "prisma")
    /\ IF ok
       THEN EnterDataCopy(i, req[i], [deployStatus EXCEPT !.message = "prismaDone"])
       ELSE EnterDataCopy(i, [req[i] EXCEPT !.fails = @ \cup {"prisma"}], deployStatus)
    /\ UNCHANGED <<sharedStatus, allFiles, allDirs, fileList, extractionStatus, live, extracted, backupDir, restartFile,
                   fname, ftype, started>>

\* await mkdir(prismaDir) is over: lines 144-146, or on to 159.
DeployMkdirPrisma(i, ok) ==
    /\ At(i, "deploy", "mkdirPrisma")
    /\ IF ok
       THEN /\ req' = [req EXCEPT ![i].pc = "cpDb"]
            /\ UNCHANGED deployStatus
       ELSE EnterRestart(i, [req[i] EXCEPT !.fails = @ \cup {"db"}], deployStatus)
    /\ UNCHANGED <<sharedStatus, allFiles, allDirs, fileList, extractionStatus, live, extracted, backupDir, restartFile,
                   fname, ftype, started>>

\* await execAsync(cp sourceDb destDb) is over: lines 146-159.
DeployCpDb(i, ok) ==
    /\ At(i, "deploy", "cpDb")
    /\ IF ok
       THEN /\ extracted.exists /\ extracted.files[P_srcdb] # "none"
            /\ live' = CpFile(extracted.files, live, P_srcdb, P_devdb)
            /\ EnterRestart(i, req[i], [deployStatus EXCEPT !.message = "dbCopied"])
       ELSE /\ UNCHANGED live
            /\ EnterRestart(i, [req[i] EXCEPT !.fails = @ \cup {"db"}], deployStatus)
    /\ UNCHANGED <<sharedStatus, allFiles, allDirs, fileList, extractionStatus, extracted, backupDir, restartFile, fname, ftype, started>>

\* DeployRestart with the sentinel written before the install: the handler
\* goes on to the install after the write.
DeployRestart_ThenInstall(i, ok) ==
    /\ At(i, "deploy", "restart")
    /\ IF ok
       THEN /\ restartFile' = TRUE
            /\ req' = [req EXCEPT ![i] = [@ EXCEPT !.sentinel = TRUE, !.pc = "install"]]
            /\ UNCHANGED deployStatus
       ELSE /\ DeployCatch(i, "writeFile")
            /\ UNCHANGED restartFile
    /\ UNCHANGED <<sharedStatus, allFiles, allDirs, fileList, extractionStatus, live, extracted, backupDir, fname, ftype, started>>

\* await writeFile(restartFile) is over: lines 159-172.
DeployRestart(i, ok) ==
    /\ At(i, "deploy", "restart")
    /\ IF ok
       THEN /\ restartFile' = TRUE
            /\ req' = [req EXCEPT ![i] =
                    Return([@ EXCEPT !.sentinel = TRUE], 200, "success",
                           deployStatus.status)]
            /\ UNCHANGED deployStatus
       ELSE /\ DeployCatch(i, "writeFile")
            /\ UNCHANGED restartFile
    /\ UNCHANGED <<sharedStatus, allFiles, allDirs, fileList, extractionStatus, live, extracted, backupDir, fname, ftype, started>>

-----------------------------------------------------------------------------
(* upload-system/route.ts: detectFileType.  A name is a sequence of        *)
(* characters.                                                             *)

Upper == <<"T", "A", "R", "G", "Z", "I", "P">>
Lower == <<"t", "a", "r", "g", "z", "i", "p">>

\* One character of String.prototype.toLowerCase.
LowerChar(c) ==
    IF \E k \in 1..Len(Upper) : Upper[k] = c
    THEN Lower[CHOOSE k \in 1..Len(Upper) : Upper[k] = c]
    ELSE c

toLowerCase(s) == [k \in 1..Len(s) |-> LowerChar(s[k])]

endsWith(s, suffix) ==
    /\ Len(s) >= Len(suffix)
    /\ SubSeq(s, Len(s) - Len(suffix) + 1, Len(s)) = suffix

S_targz == <<".", "t", "a", "r", ".", "g", "z">>
S_tgz   == <<".", "t", "g", "z">>
S_tar   == <<".", "t", "a", "r">>
S_zip   == <<".", "z", "i", "p">>
S_rar   == <<".", "r", "a", "r">>

\* detectFileType without toLowerCase.
detectFileType_CaseSensitive(filename) ==
    IF endsWith(filename, S_targz) \/ endsWith(filename, S_tgz) THEN "tar.gz"
    ELSE IF endsWith(filename, S_tar) THEN "tar"
    ELSE IF endsWith(filename, S_zip) THEN "zip"
    ELSE IF endsWith(filename, S_rar) THEN "rar"
    ELSE "unknown"

detectFileType(filename) ==
    LET lowerName == toLowerCase(filename)
    IN  IF endsWith(lowerName, S_targz) \/ endsWith(lowerName, S_tgz) THEN "tar.gz"
        ELSE IF endsWith(lowerName, S_tar) THEN "tar"
        ELSE IF endsWith(lowerName, S_zip) THEN "zip"
        ELSE IF endsWith(lowerName, S_rar) THEN "rar"
        ELSE "unknown"

\* The names the uploads of the model carry: x.TGZ, x.zip, x.rar, x.tar.txt, xzip
N_tgz == <<"x", ".", "T", "G", "Z">>
N_zip == <<"x", ".", "z", "i", "p">>
N_rar == <<"x", ".", "r", "a", "r">>
N_txt == <<"x", ".", "t", "a", "r", ".", "t", "x", "t">>
N_bare == <<"x", "z", "i", "p">>

\* The uploads of the model: a file name and the archive under it.
Uploads ==
    { <<N_tgz, "A1">>, <<N_zip, "A2">>, <<N_tgz, "A3">>, <<N_tgz, "A4">>,
      <<N_rar, "A4">>, <<N_txt, "A1">>, <<N_bare, "A1">> }

-----------------------------------------------------------------------------
(* upload-system/route.ts: the extraction directory and its listing *)

\* Limits of the listing: head -n 1000, head -n 500, slice(0, 100), slice(0, 500).
FileLines == 1000
DirLines == 500
DirCap == 100
FileCap == 500

Present(d) == {p \in Paths : d.files[p] # "none"}

\* The directories below the root of a set of files.
DirsOf(ps) == {SubSeq(p, 1, k) : <<p, k>> \in {<<q, m>> \in ps \X (1..3) : m < Len(q)}}

\* find -type f | wc -l, and the directories below the extraction root.
CountFiles(d) == IF d.exists THEN Cardinality(Present(d)) + d.extraFiles ELSE 0
CountDirs(d) == IF d.exists THEN Cardinality(DirsOf(Present(d))) + d.extraDirs ELSE 0

\* The archive's members: its regular files and its directories.
ArchiveFiles(a) == Cardinality(Archive(a).files) + Archive(a).extraFiles
ArchiveDirs(a) == Cardinality(DirsOf(Archive(a).files)) + Archive(a).extraDirs

\* tar -x / unzip -o / unrar x -o+ of archive a into the directory d.
Unpack(d, a) ==
    [exists |-> TRUE,
     files |-> [p \in Paths |-> IF p \in Archive(a).files THEN a ELSE d.files[p]],
     extraFiles |-> Max(d.extraFiles, Archive(a).extraFiles),
     extraDirs |-> Max(d.extraDirs, Archive(a).extraDirs)]

\* extractArchive, lines 76-100: the member names recovered from the tool's
\* transcript.  tar -v prints one line per member.  unzip prints "inflating:"
\* for a deflated file and "creating:" for a directory, but "extracting:" for
\* a stored file, which the filter drops.  unrar prints "Extracting" or
\* "Creating" per member, and first "Extracting from <archive>", which the
\* filter keeps.
extractedItems(fileType, a, stored) ==
    CASE fileType = "zip" ->
            IF stored THEN ArchiveDirs(a) ELSE ArchiveFiles(a) + ArchiveDirs(a)
      [] fileType = "rar" -> ArchiveFiles(a) + ArchiveDirs(a) + 1
      [] OTHER -> ArchiveFiles(a) + ArchiveDirs(a)

\* find -type f | head -n 1000: the lines of the listing.
findFiles(d) == Min(CountFiles(d), FileLines)
\* find -type d | head -n 500: the root comes first, when it exists.
findDirs(d) == IF d.exists THEN Min(CountDirs(d) + 1, DirLines) ELSE 0

\* parseInt(countOutput.trim()) || files.length
totalFilesOf(count, files) == IF count # 0 THEN count ELSE files

\* Lines 243-277: the entries of fileList, directories first; the root, whose
\* relative path is empty, is left out of dirs.slice(0, 100).
fileListOf(dirs, files) ==
    [dirs |-> IF dirs >= 1 THEN Min(dirs, DirCap) - 1 ELSE 0,
     files |-> Min(files, FileCap)]

-----------------------------------------------------------------------------
(* upload-system/route.ts: POST *)

UploadReset ==
    [status |-> "extracting", message |-> "reading", progress |-> 5,
     files |-> [dirs |-> 0, files |-> 0], totalFiles |-> 0, error |-> "",
     fileType |-> "", extractedFilePath |-> ""]

\* UploadCatch without line 306.
UploadCatch_NoPhase(i, msg) ==
    /\ extractionStatus' = [extractionStatus EXCEPT !.error = msg]
    /\ req' = [req EXCEPT ![i] = Thrown(@, extractionStatus'.status)]

\* catch (error): lines 304-313.
UploadCatch(i, msg) ==
    /\ extractionStatus' = [extractionStatus EXCEPT !.status = "error", !.error = msg]
    /\ req' = [req EXCEPT ![i] = Thrown(@, extractionStatus'.status)]

\* Lines 115-139: up to await request.formData().
UploadStart(i) ==
    /\ Free(i)
    /\ extractionStatus' = UploadReset
    /\ req' = Enter(i, "upload", [IdleReq EXCEPT !.pc = "formData"])
    /\ started' = started + 1
    /\ UNCHANGED <<sharedStatus, allFiles, allDirs, fileList, deployStatus, live, extracted, backupDir, restartFile, fname, ftype>>

\* UploadFormData without the check of lines 149-153 (as in upload-route.ts,
\* which takes every file for a tar).
UploadFormData_NoTypeCheck(i, hasFile, name, a) ==
    /\ At(i, "upload", "formData")
    /\ IF ~hasFile
       THEN /\ req' = [req EXCEPT ![i] = Return(@, 400, "none", extractionStatus.status)]
            /\ UNCHANGED extractionStatus
       ELSE /\ extractionStatus' = [extractionStatus EXCEPT
                    !.fileType = detectFileType(name), !.message = "saving",
                    !.progress = 10]
            /\ req' = [req EXCEPT ![i] =
                    [@ EXCEPT !.fileType = detectFileType(name), !.archive = a,
                              !.pc = "mkTemp"]]
    /\ UNCHANGED <<sharedStatus, allFiles, allDirs, fileList, deployStatus, live, extracted, backupDir, restartFile, fname, ftype, started>>

\* await request.formData() is over: lines 139-163.
UploadFormData(i, hasFile, name, a) ==
    /\ At(i, "upload", "formData")
    /\ IF ~hasFile \/ detectFileType(name) = "unknown"
       THEN /\ req' = [req EXCEPT ![i] =
                    Return([@ EXCEPT !.fileType = IF hasFile THEN detectFileType(name) ELSE ""],
                           400, "none", extractionStatus.status)]
            /\ UNCHANGED extractionStatus
       ELSE /\ extractionStatus' = [extractionStatus EXCEPT
                    !.fileType = detectFileType(name), !.message = "saving",
                    !.progress = 10]
            /\ req' = [req EXCEPT ![i] =
                    [@ EXCEPT !.fileType = detectFileType(name), !.archive = a,
                              !.pc = "mkTemp"]]
    /\ UNCHANGED <<sharedStatus, allFiles, allDirs, fileList, deployStatus, live, extracted, backupDir, restartFile, fname, ftype, started>>

\* await mkdir(tempDir) is over: lines 163-178.
UploadMkTemp(i, ok) ==
    /\ At(i, "upload", "mkTemp")
    /\ IF ok
       THEN /\ extractionStatus' = [extractionStatus EXCEPT
                    !.message = "writing", !.progress = 15]
            /\ req' = [req EXCEPT ![i] = [@ EXCEPT !.tempDir = "exists", !.pc = "writeTemp"]]
       ELSE UploadCatch(i, "mkdir")
    /\ UNCHANGED <<sharedStatus, allFiles, allDirs, fileList, deployStatus, live, extracted, backupDir, restartFile, fname, ftype, started>>

\* UploadWriteTemp without the clean-up of lines 191-195.
UploadWriteTemp_NoCleanup(i, ok) ==
    /\ At(i, "upload", "writeTemp")
    /\ IF ok
       THEN /\ extractionStatus' = [extractionStatus EXCEPT
                    !.message = "extracting", !.progress = 25]
            /\ req' = [req EXCEPT ![i].pc = "mkExtract"]
       ELSE UploadCatch(i, "writeFile")
    /\ UNCHANGED <<sharedStatus, allFiles, allDirs, fileList, deployStatus, live, extracted, backupDir, restartFile, fname, ftype, started>>

\* await file.arrayBuffer() and await writeFile(tempFilePath) are over:
\* lines 178-196.
UploadWriteTemp(i, ok) ==
    /\ At(i, "upload", "writeTemp")
    /\ IF ok
       THEN /\ extractionStatus' = [extractionStatus EXCEPT
                    !.message = "extracting", !.progress = 25]
            /\ req' = [req EXCEPT ![i].pc =
                    IF extracted.exists THEN "rmExtract" ELSE "mkExtract"]
       ELSE UploadCatch(i, "writeFile")
    /\ UNCHANGED <<sharedStatus, allFiles, allDirs, fileList, deployStatus, live, extracted, backupDir, restartFile, fname, ftype, started>>

\* await rm(extractedDir) is over: lines 194-196.
UploadRmExtract(i, ok) ==
    /\ At(i, "upload", "rmExtract")
    /\ IF ok
       THEN /\ extracted' = NoDir
            /\ req' = [req EXCEPT ![i] = [@ EXCEPT !.touched = TRUE, !.pc = "mkExtract"]]
            /\ UNCHANGED extractionStatus
       ELSE /\ UploadCatch(i, "rm")
            /\ UNCHANGED extracted
    /\ UNCHANGED <<sharedStatus, allFiles, allDirs, fileList, deployStatus, live, backupDir, restartFile, fname, ftype, started>>

\* await mkdir(extractedDir, {recursive}) is over: lines 196-203.
UploadMkExtract(i, ok) ==
    /\ At(i, "upload", "mkExtract")
    /\ IF ok
       THEN /\ extracted' = IF extracted.exists THEN extracted ELSE EmptyDir
            /\ extractionStatus' = [extractionStatus EXCEPT
                    !.message = "unpacking", !.progress = 35]
            /\ req' = [req EXCEPT ![i] = [@ EXCEPT !.touched = TRUE, !.pc = "extract"]]
       ELSE /\ UploadCatch(i, "mkdir")
            /\ UNCHANGED extracted
    /\ UNCHANGED <<sharedStatus, allFiles, allDirs, fileList, deployStatus, live, backupDir, restartFile, fname, ftype, started>>

\* UploadExtract without the check of lines 205-212.
UploadExtract_IgnoresFailure(i, ok, wrote, stored) ==
    /\ At(i, "upload", "extract")
    /\ LET r == req[i]
           n == extractedItems(r.fileType, r.archive, stored)
       IN  /\ ok => wrote
           /\ wrote => (extracted.exists \/ r.fileType \in {"zip", "rar"})
           /\ stored => r.fileType = "zip"
           /\ extracted' = IF wrote THEN Unpack(extracted, r.archive) ELSE extracted
           /\ IF ok /\ n = 0
              THEN /\ extractionStatus' = [extractionStatus EXCEPT
                            !.status = "error", !.error = "empty"]
                   /\ req' = [req EXCEPT ![i] =
                            Return([@ EXCEPT !.tool = "ok", !.items = n], 500,
                                   "error", extractionStatus'.status)]
              ELSE /\ extractionStatus' = [extractionStatus EXCEPT
                            !.message = "listing", !.progress = 65]
                   /\ req' = [req EXCEPT ![i] =
                            [@ EXCEPT !.tool = IF ok THEN "ok" ELSE "failed",
                                      !.items = IF ok THEN n ELSE 0,
                                      !.pc = "findFiles"]]
    /\ UNCHANGED <<sharedStatus, allFiles, allDirs, fileList, deployStatus, live, backupDir, restartFile, fname, ftype, started>>

\* UploadExtract without the check of lines 214-221.
UploadExtract_NoEmptyCheck(i, ok, wrote, stored) ==
    /\ At(i, "upload", "extract")
    /\ LET r == req[i]
           n == extractedItems(r.fileType, r.archive, stored)
       IN  /\ ok => wrote
           /\ wrote => (extracted.exists \/ r.fileType \in {"zip", "rar"})
           /\ stored => r.fileType = "zip"
           /\ extracted' = IF wrote THEN Unpack(extracted, r.archive) ELSE extracted
           /\ IF ~ok
              THEN /\ extractionStatus' = [extractionStatus EXCEPT
                            !.status = "error", !.error = "tool"]
                   /\ req' = [req EXCEPT ![i] =
                            Return([@ EXCEPT !.tool = "failed"], 500, "error",
                                   extractionStatus'.status)]
              ELSE /\ extractionStatus' = [extractionStatus EXCEPT
                            !.message = "listing", !.progress = 65]
                   /\ req' = [req EXCEPT ![i] =
                            [@ EXCEPT !.tool = "ok", !.items = n, !.pc = "findFiles"]]
    /\ UNCHANGED <<sharedStatus, allFiles, allDirs, fileList, deployStatus, live, backupDir, restartFile, fname, ftype, started>>

\* await extractArchive(...) is over: lines 203-231.  ok: the tool exited with
\* 0 in time; wrote: whether it wrote the members (a failing tool may have);
\* stored: a zip whose files are all stored.
UploadExtract(i, ok, wrote, stored) ==
    /\ At(i, "upload", "extract")
    /\ LET r == req[i]
           n == extractedItems(r.fileType, r.archive, stored)
       IN  /\ ok => wrote
           \* tar -C needs the directory; unzip -d and unrar make it
           /\ wrote => (extracted.exists \/ r.fileType \in {"zip", "rar"})
           /\ stored => r.fileType = "zip"
           /\ extracted' = IF wrote THEN Unpack(extracted, r.archive) ELSE extracted
           /\ IF ~ok
              THEN /\ extractionStatus' = [extractionStatus EXCEPT
                            !.status = "error", !.error = "tool"]
                   /\ req' = [req EXCEPT ![i] =
                            Return([@ EXCEPT !.tool = "failed"], 500, "error",
                                   extractionStatus'.status)]
              ELSE IF n = 0
              THEN /\ extractionStatus' = [extractionStatus EXCEPT
                            !.status = "error", !.error = "empty"]
                   /\ req' = [req EXCEPT ![i] =
                            Return([@ EXCEPT !.tool = "ok", !.items = n], 500,
                                   "error", extractionStatus'.status)]
              ELSE /\ extractionStatus' = [extractionStatus EXCEPT
                            !.message = "listing", !.progress = 65]
                   /\ req' = [req EXCEPT ![i] =
                            [@ EXCEPT !.tool = "ok", !.items = n, !.pc = "findFiles"]]
    /\ UNCHANGED <<sharedStatus, allFiles, allDirs, fileList, deployStatus, live, backupDir, restartFile, fname, ftype, started>>

\* await execAsync(find -type f | head -n 1000) is over: lines 231-234.
UploadFindFiles(i, ok) ==
    /\ At(i, "upload", "findFiles")
    /\ IF ok
       THEN /\ req' = [req EXCEPT ![i] =
                    [@ EXCEPT !.files = findFiles(extracted), !.pc = "findDirs"]]
            /\ UNCHANGED extractionStatus
       ELSE UploadCatch(i, "find")
    /\ UNCHANGED <<sharedStatus, allFiles, allDirs, fileList, deployStatus, live, extracted, backupDir, restartFile, fname, ftype, started>>

\* await execAsync(find -type d | head -n 500) is over: lines 234-240.
UploadFindDirs(i, ok) ==
    /\ At(i, "upload", "findDirs")
    /\ IF ok
       THEN /\ req' = [req EXCEPT ![i] =
                    [@ EXCEPT !.dirs = findDirs(extracted), !.pc = "count"]]
            /\ UNCHANGED extractionStatus
       ELSE UploadCatch(i, "find")
    /\ UNCHANGED <<sharedStatus, allFiles, allDirs, fileList, deployStatus, live, extracted, backupDir, restartFile, fname, ftype, started>>

\* Lines 279-287: the status is set and the temporary directory's removal begun.
UploadFinish(i, r) ==
    /\ extractionStatus' = [extractionStatus EXCEPT
            !.files = r.shown, !.totalFiles = r.totalFiles,
            !.status = "success", !.message = "done", !.progress = 100]
    /\ req' = [req EXCEPT ![i] = [r EXCEPT !.pc = "rmTemp"]]

\* await execAsync(find -type f | wc -l) is over: lines 240-263, or on to 287.
UploadCount(i, ok) ==
    /\ At(i, "upload", "count")
    /\ IF ok
       THEN LET r == [req[i] EXCEPT
                        !.totalFiles = totalFilesOf(CountFiles(extracted), req[i].files),
                        !.shown = fileListOf(req[i].dirs, req[i].files)]
            IN  IF r.shown.files > 0
                THEN /\ req' = [req EXCEPT ![i] = [r EXCEPT !.pc = "stat"]]
                     /\ UNCHANGED extractionStatus
                ELSE UploadFinish(i, r)
       ELSE UploadCatch(i, "find")
    /\ UNCHANGED <<sharedStatus, allFiles, allDirs, fileList, deployStatus, live, extracted, backupDir, restartFile, fname, ftype, started>>

\* The awaits of stat(file) of the loop of lines 259-277 are over (a failing
\* stat gives size 0 and nothing else): lines 263-287.
UploadStat(i) ==
    /\ At(i, "upload", "stat")
    /\ UploadFinish(i, req[i])
    /\ UNCHANGED <<sharedStatus, allFiles, allDirs, fileList, deployStatus, live, extracted, backupDir, restartFile, fname, ftype, started>>

\* await rm(tempDir) is over (its failure is ignored): lines 287-302.
UploadRmTemp(i, ok) ==
    /\ At(i, "upload", "rmTemp")
    /\ req' = [req EXCEPT ![i] =
            Return([@ EXCEPT !.tempDir = IF ok THEN "removed" ELSE @],
                   200, "success", extractionStatus.status)]
    /\ UNCHANGED <<sharedStatus, allFiles, allDirs, fileList, deployStatus, extractionStatus, live, extracted, backupDir,
                   restartFile, fname, ftype, started>>

-----------------------------------------------------------------------------
(* The polling endpoints.  A GET handler returns at once what it reads.    *)

\* deploy-route.ts: GET.
DeployGET == deployStatus

\* upload-system/route.ts: GET.
UploadGET == extractionStatus

\* deploy-route.ts, lines 165-171: the steps of the success response.
StepsReported ==
    [s \in {"backup", "copy", "install", "prisma", "restart"} |-> "done"]

\* upload-system/status/route.ts: GET.  Its record is written by updateStatus
\* alone, which nothing calls.
StatusGET == sharedStatus

-----------------------------------------------------------------------------
(* The server: requests arrive at any time, awaited operations end in any  *)
(* order and either way.                                                   *)

Init ==
    /\ deployStatus = [status |-> "idle", message |-> "", progress |-> 0,
                       error |-> "", step |-> ""]
    /\ extractionStatus = [status |-> "idle", message |-> "", progress |-> 0,
                           files |-> [dirs |-> 0, files |-> 0], totalFiles |-> 0,
                           error |-> "", fileType |-> "", extractedFilePath |-> ""]
    /\ req = [i \in Slots |-> IdleReq]
    /\ live = LiveTree(FALSE)
    /\ extracted \in {NoDir, Unpack(EmptyDir, "A1")}
    /\ backupDir = FALSE
    /\ restartFile = FALSE
    /\ started = 0
    /\ fname = <<>>
    /\ ftype = "unset"
    /\ sharedStatus = [status |-> "idle", message |-> "", progress |-> 0,
                       files |-> [dirs |-> 0, files |-> 0], totalFiles |-> 0,
                       error |-> ""]
    /\ allFiles = <<>>
    /\ allDirs = <<>>
    /\ fileList = [built |-> FALSE, entries |-> <<>>]

Next ==
    \E i \in Slots :
        \/ DeployStart(i)
        \/ \E ok \in BOOLEAN : DeployMkdirBackup(i, ok)
        \/ \E ok \in BOOLEAN, part \in RsyncPartial : DeployRsync(i, ok, part)
        \/ \E ok \in BOOLEAN : DeployFbRm(i, ok)
        \/ \E ok \in BOOLEAN : DeployFbMkdir(i, ok)
        \/ \E ok \in BOOLEAN : DeployFbCpDir(i, ok)
        \/ \E ok \in BOOLEAN : DeployFbCpFile(i, ok)
        \/ \E ok \in BOOLEAN : DeployInstall(i, ok)
        \/ \E ok \in BOOLEAN : DeployPrisma(i, ok)
        \/ \E ok \in BOOLEAN : DeployMkdirPrisma(i, ok)
        \/ \E ok \in BOOLEAN : DeployCpDb(i, ok)
        \/ \E ok \in BOOLEAN : DeployRestart(i, ok)
        \/ UploadStart(i)
        \/ \E hasFile \in BOOLEAN, u \in Uploads :
                UploadFormData(i, hasFile, u[1], u[2])
        \/ \E ok \in BOOLEAN : UploadMkTemp(i, ok)
        \/ \E ok \in BOOLEAN : UploadWriteTemp(i, ok)
        \/ \E ok \in BOOLEAN : UploadRmExtract(i, ok)
        \/ \E ok \in BOOLEAN : UploadMkExtract(i, ok)
        \/ \E ok, wrote, stored \in BOOLEAN : UploadExtract(i, ok, wrote, stored)
        \/ \E ok \in BOOLEAN : UploadFindFiles(i, ok)
        \/ \E ok \in BOOLEAN : UploadFindDirs(i, ok)
        \/ \E ok \in BOOLEAN : UploadCount(i, ok)
        \/ UploadStat(i)
        \/ \E ok \in BOOLEAN : UploadRmTemp(i, ok)

Spec == Init /\ [][Next]_vars

\* The awaits that end of themselves: those of fs/promises and of the
\* request, and the execAsync calls that are given a timeout (bun install,
\* line 109; db:generate, line 129; the extraction tool, route.ts line 73).
\* Not among them: rsync (67), cp (84, 92, 146) and find (231, 234, 240), which
\* are given none.
BoundedStep(i) ==
    \/ \E ok \in BOOLEAN : DeployMkdirBackup(i, ok)
    \/ \E ok \in BOOLEAN : DeployFbRm(i, ok)
    \/ \E ok \in BOOLEAN : DeployFbMkdir(i, ok)
    \/ \E ok \in BOOLEAN : DeployInstall(i, ok)
    \/ \E ok \in BOOLEAN : DeployPrisma(i, ok)
    \/ \E ok \in BOOLEAN : DeployMkdirPrisma(i, ok)
    \/ \E ok \in BOOLEAN : DeployRestart(i, ok)
    \/ \E hasFile \in BOOLEAN, u \in Uploads :
            UploadFormData(i, hasFile, u[1], u[2])
    \/ \E ok \in BOOLEAN : UploadMkTemp(i, ok)
    \/ \E ok \in BOOLEAN : UploadWriteTemp(i, ok)
    \/ \E ok \in BOOLEAN : UploadRmExtract(i, ok)
    \/ \E ok \in BOOLEAN : UploadMkExtract(i, ok)
    \/ \E ok, wrote, stored \in BOOLEAN : UploadExtract(i, ok, wrote, stored)
    \/ UploadStat(i)
    \/ \E ok \in BOOLEAN : UploadRmTemp(i, ok)

\* The execAsync calls without a timeout: they end when the tool exits.
UnboundedStep(i) ==
    \/ \E ok \in BOOLEAN, part \in RsyncPartial : DeployRsync(i, ok, part)
    \/ \E ok \in BOOLEAN : DeployFbCpDir(i, ok)
    \/ \E ok \in BOOLEAN : DeployFbCpFile(i, ok)
    \/ \E ok \in BOOLEAN : DeployCpDb(i, ok)
    \/ \E ok \in BOOLEAN : UploadFindFiles(i, ok)
    \/ \E ok \in BOOLEAN : UploadFindDirs(i, ok)
    \/ \E ok \in BOOLEAN : UploadCount(i, ok)

\* The server when a tool may never exit: only the awaits that end of
\* themselves are sure to end.
SpecTimeouts == Init /\ [][Next]_vars /\ \A i \in Slots : WF_vars(BoundedStep(i))

\* The server when every tool exits.
SpecToolsExit ==
    Init /\ [][Next]_vars
         /\ \A i \in Slots : WF_vars(BoundedStep(i)) /\ WF_vars(UnboundedStep(i))

-----------------------------------------------------------------------------
(* detectFileType on its own: a name is put together from pieces and       *)
(* classified.                                                             *)

Pieces ==
    { S_tar, S_tgz, S_zip, S_rar,
      <<".", "g", "z">>, <<".", "T", "A", "R">>, <<".", "G", "z">>,
      <<".", "Z", "I", "P">>, <<"t", "a", "r">>, <<"x">>, <<".">> }

AppendPiece(piece) ==
    /\ Len(fname) < MaxPieces * 4
    /\ Cardinality({k \in 1..Len(fname) : fname[k] \in {".", "x"}})
            + (IF piece = <<"t", "a", "r">> THEN 1 ELSE 0) < MaxPieces
    /\ fname' = fname \o piece
    /\ ftype' = "unset"
    /\ UNCHANGED <<sharedStatus, allFiles, allDirs, fileList, deployStatus, extractionStatus, req, live, extracted,
                   backupDir, restartFile, started>>

Classify ==
    /\ ftype = "unset"
    /\ ftype' = detectFileType(fname)
    /\ UNCHANGED <<sharedStatus, allFiles, allDirs, fileList, deployStatus, extractionStatus, req, live, extracted,
                   backupDir, restartFile, started, fname>>

NextClassify == (\E piece \in Pieces : AppendPiece(piece)) \/ Classify

SpecClassify == Init /\ [][NextClassify]_vars

-----------------------------------------------------------------------------
(* upload-system/route.ts, lines 243-277: the entry list, built from the   *)
(* lines of the two listings.  A path is the sequence of its names and     *)
(* separators.                                                             *)

extractedDir == <<"/", "cwd", "/", "extracted-system">>

\* s.replace(pat, ''): the first occurrence of pat is taken out.
replace(s, pat) ==
    LET hits == {k \in 1..(Len(s) - Len(pat) + 1) :
                    SubSeq(s, k, k + Len(pat) - 1) = pat}
    IN  IF hits = {} THEN s
        ELSE LET k == CHOOSE h \in hits : \A m \in hits : h <= m
             IN  SubSeq(s, 1, k - 1) \o SubSeq(s, k + Len(pat), Len(s))

\* s.replace(/^\//, '')
stripSlash(s) == IF s # <<>> /\ s[1] = "/" THEN Tail(s) ELSE s

relativePath(line) == stripSlash(replace(line, extractedDir))

slice(s, n) == SubSeq(s, 1, Min(Len(s), n))

\* One of the two loops: the lines with a relative path that is not empty.
Pushed(lines, type) ==
    LET kept == SelectSeq(lines, LAMBDA l : relativePath(l) # <<>>)
    IN  [k \in 1..Len(kept) |-> [path |-> relativePath(kept[k]), type |-> type]]

\* fileListFrom without the test of lines 249 and 261.
fileListFrom_NoEmptyTest(dirs, files) ==
    LET all(lines, type) ==
            [k \in 1..Len(lines) |-> [path |-> relativePath(lines[k]), type |-> type]]
    IN  all(slice(dirs, DirCap), "directory") \o all(slice(files, FileCap), "file")

fileListFrom(dirs, files) ==
    Pushed(slice(dirs, DirCap), "directory") \o Pushed(slice(files, FileCap), "file")

\* find prints the directory it starts in first, then what is under it.
FindDirLine ==
    /\ ~fileList.built
    /\ Len(allDirs) < MaxDirLines
    /\ allDirs' = Append(allDirs,
            IF allDirs = <<>> THEN extractedDir
            ELSE extractedDir \o <<"/", "d" \o ToString(Len(allDirs))>>)
    /\ UNCHANGED <<deployStatus, extractionStatus, req, live, extracted, backupDir,
                   restartFile, started, fname, ftype, sharedStatus, allFiles,
                   fileList>>

\* The line of the file listing at place k.
FileLine(k) ==
    IF k % 2 = 0
    THEN extractedDir \o <<"/", "f" \o ToString(k)>>
    ELSE extractedDir \o <<"/", "d1", "/", "f" \o ToString(k)>>

\* The lengths of the file listings enumerated: few lines, and around the cap.
FileListLens == (1..3) \cup ((FileCap - 1)..MaxFileLines)

FindFiles(n) ==
    /\ ~fileList.built
    /\ allFiles = <<>> /\ allDirs = <<>>
    /\ allFiles' = [k \in 1..n |-> FileLine(k)]
    /\ UNCHANGED <<deployStatus, extractionStatus, req, live, extracted, backupDir,
                   restartFile, started, fname, ftype, sharedStatus, allDirs,
                   fileList>>

BuildFileList ==
    /\ ~fileList.built
    /\ fileList' = [built |-> TRUE, entries |-> fileListFrom(allDirs, allFiles)]
    /\ UNCHANGED <<deployStatus, extractionStatus, req, live, extracted, backupDir,
                   restartFile, started, fname, ftype, sharedStatus, allFiles,
                   allDirs>>

NextListing ==
    \/ \E n \in FileListLens : FindFiles(n)
    \/ FindDirLine
    \/ BuildFileList

SpecListing == Init /\ [][NextListing]_vars

-----------------------------------------------------------------------------
(* Properties *)

CopyAwaits == {"fbRm", "fbMkdir", "fbCpDir", "fbCpFile"}

Runs(kind) == {i \in Slots : req[i].kind = kind}

\* C1: deploy and upload are each single-flight: no two runs of the same
\* route are past their status reset (in flight) at the same time, a second
\* caller being turned away without a write to the status record.
C1_SingleFlight ==
    \A i, j \in Slots :
        (i # j /\ InFlight(i) /\ InFlight(j)) => req[i].kind # req[j].kind

\* C2: a deploy run whose copy step fails (rsync failed, and then an
\* operation of the fallback copy failed) has ended, with the status record in
\* phase error, an error response, and without having written the sentinel.
C2_CopyFailureIsError ==
    \A i \in Runs("deploy") :
        req[i].thrownAt \in CopyAwaits =>
            /\ req[i].pc = "done"
            /\ req[i].seen = "error"
            /\ req[i].code = 500 /\ req[i].status = "error"
            /\ ~req[i].sentinel

C2_Witness ==
    \E i \in Runs("deploy") :
        /\ req[i].thrownAt = "fbCpDir"
        /\ req[i].pc = "done"
        /\ deployStatus.status = "error"
        /\ ~restartFile

\* C3: a deploy run that got past Init, Backup and Copy and whose write of
\* the sentinel succeeded, whatever the install, the migration and the data
\* copy did, ends with the status record in phase success, a success response
\* and the sentinel written.
C3_BestEffortSuccess ==
    \A i \in Runs("deploy") :
        (req[i].pc = "done" /\ req[i].sentinel) =>
            /\ req[i].seen = "success"
            /\ req[i].code = 200 /\ req[i].status = "success"
            /\ restartFile

\* The same of the runs that no other deploy run overlapped.
BestEffortSuccessAlone ==
    \A i \in Runs("deploy") :
        (req[i].pc = "done" /\ req[i].sentinel /\ req[i].alone) =>
            /\ req[i].seen = "success"
            /\ req[i].code = 200 /\ req[i].status = "success"
            /\ restartFile

\* Every combination of failures of the three steps ends so.
BestEffortCombinations ==
    \A i \in Runs("deploy") :
        (req[i].pc = "restart" /\ req[i].alone) => deployStatus.status = "success"

\* C4: a POST /deploy that finds no extraction directory answers with an
\* error in the step it arrives in, and that step changes neither the live
\* tree nor the backup directory nor the sentinel nor the status record.
C4_NoExtractionFailsFast ==
    [][(/\ ~extracted.exists
        /\ started' = started + 1
        /\ Pick \in Slots
        /\ req'[Pick].kind = "deploy")
       => (/\ req'[Pick].pc = "done"
           /\ req'[Pick].code = 400
           /\ live' = live
           /\ backupDir' = backupDir
           /\ restartFile' = restartFile
           /\ deployStatus' = deployStatus)]_vars

C4_Witness ==
    \E i \in Runs("deploy") :
        /\ req[i].pc = "done" /\ req[i].code = 400
        /\ ~extracted.exists
        /\ live = LiveTree(FALSE) /\ ~backupDir /\ ~restartFile

\* C5: no path that matches the exclusion list at any depth is ever copied
\* from the extracted tree into the live root, whichever strategy copies.
C5_ExcludedNeverCopied ==
    \A p \in Paths : Excluded(p) => live[p] \notin ArchiveIds

\* The same of the mirroring copy alone: of the states no fallback has
\* written to.
ExcludedNeverCopiedByRsync ==
    (\A i \in Runs("deploy") : req[i].fb = 0) =>
        \A p \in Paths : Excluded(p) => live[p] \notin ArchiveIds

\* C6: an upload whose file name classifies as unknown is answered at once
\* with a validation error (400): it has made no temporary directory and has
\* neither removed nor made the extraction directory.
C6_UnknownRejectedFirst ==
    \A i \in Runs("upload") :
        req[i].fileType = "unknown" =>
            /\ req[i].pc = "done"
            /\ req[i].code = 400
            /\ req[i].tempDir = "none"
            /\ ~req[i].touched

C6_Witness ==
    \E i \in Runs("upload") :
        /\ req[i].fileType = "unknown"
        /\ req[i].pc = "done" /\ req[i].code = 400
        /\ extracted = Unpack(EmptyDir, "A1")

\* s ends with suffix: some prefix followed by the suffix is s.
HasSuffix(s, suffix) ==
    \E k \in 0..Len(s) :
        /\ Len(s) - k = Len(suffix)
        /\ \A m \in 1..Len(suffix) : s[k + m] = suffix[m]

\* C7: detectFileType gives tar.gz iff the lower-cased name ends with .tar.gz
\* or .tgz, otherwise tar iff it ends with .tar, otherwise zip iff .zip,
\* otherwise rar iff .rar, otherwise unknown; a name that ends with .tar.gz is
\* never a tar.
C7_Classification ==
    ftype # "unset" =>
        LET n == toLowerCase(fname)
            gz == HasSuffix(n, S_targz) \/ HasSuffix(n, S_tgz)
        IN  /\ (ftype = "tar.gz") <=> gz
            /\ (ftype = "tar") <=> (~gz /\ HasSuffix(n, S_tar))
            /\ (ftype = "zip") <=> (~gz /\ ~HasSuffix(n, S_tar) /\ HasSuffix(n, S_zip))
            /\ (ftype = "rar") <=> (/\ ~gz /\ ~HasSuffix(n, S_tar)
                                    /\ ~HasSuffix(n, S_zip) /\ HasSuffix(n, S_rar))
            /\ ftype \in {"tar.gz", "tar", "zip", "rar", "unknown"}
            /\ HasSuffix(n, S_targz) => ftype # "tar"

C7_Witness ==
    /\ fname = <<"x", ".", "T", "A", "R", ".", "G", "z">>
    /\ ftype = "tar.gz"

\* C8: an upload whose tool exited with success but gave no item has ended:
\* the status record is in phase error, the response is an error, and the run
\* set neither phase success nor progress 100.
C8_EmptyResultIsError ==
    \A i \in Runs("upload") :
        (req[i].tool = "ok" /\ req[i].items = 0) =>
            /\ req[i].pc = "done"
            /\ req[i].seen = "error"
            /\ req[i].code = 500 /\ req[i].status = "error"

C8_Witness ==
    \E i \in Runs("upload") :
        /\ req[i].tool = "ok" /\ req[i].items = 0
        /\ req[i].archive = "A4"
        /\ req[i].pc = "done"
        /\ extractionStatus.status = "error"
        /\ extractionStatus.progress < 100

\* C9: a successful upload that follows the uploads before it (none of them
\* in flight with it) leaves the extraction directory with exactly the
\* members of its archive: nothing of what was there before remains.
C9_SecondUploadReplaces ==
    [][\A i \in Slots :
          (/\ req[i].kind = "upload" /\ req[i].pc = "rmTemp" /\ req[i].alone
           /\ req'[i].pc = "done" /\ req'[i].code = 200)
          => extracted' = Unpack(EmptyDir, req[i].archive)]_vars

C9_Witness ==
    /\ req[1].kind = "upload" /\ req[1].code = 200 /\ req[1].archive = "A1"
    /\ req[2].kind = "upload" /\ req[2].code = 200 /\ req[2].archive = "A3"
    /\ req[2].alone
    /\ extracted = Unpack(EmptyDir, "A3")
    /\ Present(extracted) = {}

\* C10: a successful upload of an archive with N regular files reports
\* totalFiles = N, for N above the caps too, and lists at most FileCap files
\* and DirCap directories.
C10_TotalFilesIsN ==
    \A i \in Runs("upload") :
        (req[i].pc = "done" /\ req[i].code = 200) =>
            /\ req[i].totalFiles = ArchiveFiles(req[i].archive)
            /\ req[i].shown.files <= FileCap
            /\ req[i].shown.dirs <= DirCap

\* The same of the uploads that no other upload overlapped.
TotalFilesIsNAlone ==
    \A i \in Runs("upload") :
        (req[i].pc = "done" /\ req[i].code = 200 /\ req[i].alone) =>
            /\ req[i].totalFiles = ArchiveFiles(req[i].archive)
            /\ req[i].shown.files <= FileCap
            /\ req[i].shown.dirs <= DirCap

\* An upload above both limits that reported its N.
TotalFilesAboveLimits ==
    \E i \in Runs("upload") :
        /\ req[i].pc = "done" /\ req[i].code = 200 /\ req[i].alone
        /\ ArchiveFiles(req[i].archive) > FileLines
        /\ req[i].totalFiles = ArchiveFiles(req[i].archive)
        /\ req[i].shown.files = FileCap

\* No upload run has had another upload run in flight with it.
UploadsOneAtATime == \A i \in Runs("upload") : req[i].alone

\* C11: with uploads one at a time, whenever a poller may read the upload
\* status record, progress 100 implies phase success and a non-empty error
\* implies phase error.
C11_ProgressAndErrorAgreeWithPhase ==
    UploadsOneAtATime =>
        /\ UploadGET.progress = 100 => UploadGET.status = "success"
        /\ UploadGET.error # "" => UploadGET.status = "error"

C11_Witness ==
    /\ UploadsOneAtATime
    /\ req[1].kind = "upload" /\ req[1].code = 200
    /\ req[2].kind = "upload" /\ req[2].pc = "done" /\ req[2].thrownAt = "findFiles"
    /\ UploadGET.error # "" /\ UploadGET.status = "error"
    /\ UploadGET.progress < 100

\* The order of the phases of a deploy run.
PhaseRank(ph) ==
    CASE ph = "deploying" -> 1
      [] ph = "installing" -> 2
      [] ph = "migrating" -> 3
      [] ph = "success" -> 4
      [] OTHER -> 0

\* C12: while a deploy run that no other deploy run overlaps is in flight, a
\* step that is not the reset of a new run moves the phase of the deploy
\* status record forward in deploying, installing, migrating, success, or to
\* error, and from no other phase.
C12_PhaseMovesForward ==
    [][((\E i \in Runs("deploy") : InFlight(i) /\ req[i].alone)
        /\ started' = started)
       => (/\ PhaseRank(deployStatus.status) >= 1
           /\ \/ deployStatus'.status = "error"
              \/ PhaseRank(deployStatus'.status) >= PhaseRank(deployStatus.status))]_vars

C12_Witness ==
    \E i \in Runs("deploy") :
        /\ req[i].alone /\ req[i].pc = "done" /\ req[i].code = 200
        /\ started = 1
        /\ req[i].fails = {} /\ req[i].skipped = {}
        /\ DeployGET.status = "success"

\* Some run of the route kind is between its reset and its end.
Running(kind) == \E i \in Runs(kind) : InFlight(i)

\* C13: the progress of either status record is within 0..100, and while a
\* run of the route is between its reset and its end no step lowers it,
\* whether the run goes on to succeed or to fail.
C13_ProgressNeverDecreases ==
    [][/\ extractionStatus'.progress \in 0..100
       /\ deployStatus'.progress \in 0..100
       /\ Running("upload") => extractionStatus'.progress >= extractionStatus.progress
       /\ Running("deploy") => deployStatus'.progress >= deployStatus.progress]_vars

\* A run of the route kind that no other run of it has overlapped is between
\* its reset and its end.
RunningAlone(kind) == \E i \in Runs(kind) : InFlight(i) /\ req[i].alone

\* The same of the runs that no run of the same route overlaps, a step that
\* is the arrival of a request excepted.
ProgressNeverDecreasesAlone ==
    [][started' = started =>
          /\ extractionStatus'.progress \in 0..100
          /\ deployStatus'.progress \in 0..100
          /\ RunningAlone("upload") =>
                extractionStatus'.progress >= extractionStatus.progress
          /\ RunningAlone("deploy") =>
                deployStatus'.progress >= deployStatus.progress]_vars

\* C14: the status endpoint of the upload returns the upload status record
\* as the upload handler last wrote it: phase, progress, files and error.
C14_StatusEndpointFollowsUpload ==
    /\ StatusGET.status = extractionStatus.status
    /\ StatusGET.progress = extractionStatus.progress
    /\ StatusGET.files = extractionStatus.files
    /\ StatusGET.error = extractionStatus.error

\* C15: in the success response of a deploy, a step is reported done only if
\* the run attempted and completed it: not if it failed or was skipped.
C15_StepsDoneWereDone ==
    \A i \in Runs("deploy") :
        (req[i].pc = "done" /\ req[i].code = 200) =>
            \A st \in DOMAIN StepsReported :
                StepsReported[st] = "done" =>
                    st \notin (req[i].fails \cup req[i].skipped)

\* C16: every response of either POST carries a status field, and a deploy
\* that did not succeed answers {status: "error", error} with 500.
C16_EveryResponseHasStatus ==
    \A i \in Slots :
        req[i].pc = "done" =>
            /\ req[i].status # "none"
            /\ (req[i].kind = "deploy" /\ req[i].code # 200) =>
                    (req[i].code = 500 /\ req[i].status = "error")

\* The awaits of a deploy between its check of the extraction directory and
\* the end of its last read of it, and those of an upload in which the
\* extraction directory is removed, made or filled.
DeployReads ==
    {"mkdirBackup", "rsync", "fbRm", "fbMkdir", "fbCpDir", "fbCpFile",
     "install", "prisma", "mkdirPrisma", "cpDb"}

UploadWrites == {"rmExtract", "mkExtract", "extract"}

\* C17: no upload removes, makes or fills the extraction directory while a
\* deploy is between its check of that directory and its last read of it.
C17_UploadNeverRacesDeploy ==
    \A i \in Runs("deploy"), j \in Runs("upload") :
        ~(req[i].pc \in DeployReads /\ req[j].pc \in UploadWrites)

\* C18: the step in which a POST /deploy arrives resets the deploy status
\* record, whatever the invocation then does: the record shows the phase
\* deploying and no error.
C18_DeployResetsAtStart ==
    [][(/\ started' = started + 1
        /\ Pick \in Slots
        /\ req'[Pick].kind = "deploy")
       => (/\ deployStatus'.status = "deploying"
           /\ deployStatus'.error = ""
           /\ deployStatus'.progress <= 20)]_vars

\* The same of the invocations that find the extraction directory.
DeployResetsWhenExtracted ==
    [][(/\ started' = started + 1
        /\ Pick \in Slots
        /\ req'[Pick].kind = "deploy"
        /\ extracted.exists)
       => (/\ deployStatus'.status = "deploying"
           /\ deployStatus'.error = ""
           /\ deployStatus'.progress <= 20)]_vars

\* C19: an upload that made its temporary directory has removed it when it
\* returns, however it ended (a removal that was tried and failed apart).
C19_TempDirRemoved ==
    \A i \in Runs("upload") :
        (req[i].pc = "done" /\ req[i].tempDir # "none") =>
            (req[i].tempDir = "removed" \/ req[i].code = 200)

ListingAwaits == {"findFiles", "findDirs", "count"}

\* C20: an upload whose tool gave at least one item and whose listing or
\* count then failed ends with phase success and a success response.
C20_ListingFailureIsNotFatal ==
    \A i \in Runs("upload") :
        (/\ req[i].pc = "done"
         /\ req[i].tool = "ok" /\ req[i].items > 0
         /\ req[i].thrownAt \in ListingAwaits)
        => (req[i].seen = "success" /\ req[i].code = 200)

\* C21: every run of either route ends and answers, even if an external
\* tool it calls never exits of itself.
C21_EveryRunReturns ==
    \A i \in Slots : InFlight(i) ~> (req[i].pc = "done")

\* C22: when the install, the migration or the data copy of a deploy fails,
\* the state the run is next suspended in (or ends in) shows a message that
\* records the failure, and the phase is not error.
C22_NonFatalFailureInMessage ==
    [][\A i \in Slots :
          (/\ req[i].kind = "deploy" /\ InFlight(i)
           /\ req'[i].fails # req[i].fails)
          => (/\ deployStatus'.message \in WarningMessages
              /\ deployStatus'.status # "error")]_vars

\* No state a poller can read shows a message that records a failure.
WarningNeverObservable == DeployGET.message \notin WarningMessages

\* In a run that no other deploy overlaps, a failure of one of the three
\* steps does not make the phase error.
NonFatalFailureKeepsPhase ==
    [][\A i \in Slots :
          (/\ req[i].kind = "deploy" /\ InFlight(i) /\ req[i].alone
           /\ req'[i].fails # req[i].fails)
          => deployStatus'.status # "error"]_vars

\* The identifier of the step a deploy run is executing when it is suspended
\* at pc ("": the data copy, which has none).
StepAt(pc) ==
    CASE pc = "mkdirBackup" -> "backup"
      [] pc \in {"rsync"} \cup CopyAwaits -> "copy"
      [] pc = "install" -> "install"
      [] pc = "prisma" -> "prisma"
      [] pc = "restart" -> "restart"
      [] OTHER -> ""

\* C23: while a deploy run (that no other deploy overlaps) executes one of
\* backup, copy, install, prisma and restart, the step of the deploy status
\* record is that step's identifier; it is restart while .restart is written.
C23_StepNamesTheStep ==
    \A i \in Runs("deploy") :
        (InFlight(i) /\ req[i].alone /\ StepAt(req[i].pc) # "")
            => DeployGET.step = StepAt(req[i].pc)

\* The same of the steps before the restart.
StepNamesTheStepBeforeRestart ==
    \A i \in Runs("deploy") :
        (InFlight(i) /\ req[i].alone /\ StepAt(req[i].pc) \notin {"", "restart"})
            => DeployGET.step = StepAt(req[i].pc)

\* C24: an upload request that has returned (no other upload overlapping it)
\* has left the upload status record in phase success or error, a rejected
\* request too.
C24_ReturnedUploadIsTerminal ==
    \A i \in Runs("upload") :
        (req[i].pc = "done" /\ req[i].alone) =>
            /\ req[i].seen \in {"success", "error"}
            /\ req[i].code = 400 => req[i].seen = "error"

\* The same of the requests that were not rejected.
ReturnedUploadIsTerminalUnlessRejected ==
    \A i \in Runs("upload") :
        (req[i].pc = "done" /\ req[i].alone /\ req[i].code # 400) =>
            req[i].seen \in {"success", "error"}

\* C25: an upload whose extraction tool failed (exit status, timeout or
\* output overrun) has no items, has ended with phase error and a 500
\* response, and has run no part of the enumeration.
C25_ToolFailureIsError ==
    \A i \in Runs("upload") :
        req[i].tool = "failed" =>
            /\ req[i].items = 0
            /\ req[i].pc = "done"
            /\ req[i].seen = "error"
            /\ req[i].code = 500 /\ req[i].status = "error"
            /\ req[i].files = 0 /\ req[i].dirs = 0 /\ req[i].totalFiles = 0
            /\ req[i].shown = [dirs |-> 0, files |-> 0]

C25_Witness ==
    \E i \in Runs("upload") :
        /\ req[i].tool = "failed" /\ req[i].pc = "done"
        /\ req[i].archive = "A1"
        /\ CountFiles(extracted) > 0
        /\ UploadGET.status = "error" /\ UploadGET.error = "tool"
        /\ UploadGET.progress = 35

EntriesOf(type) == {k \in 1..Len(fileList.entries) : fileList.entries[k].type = type}

\* C26: the entry list has at most DirCap directories and FileCap files, the
\* directories before the files, every path relative to the extraction
\* directory, and the extraction directory itself not among them.
C26_EntryListShape ==
    fileList.built =>
        /\ Cardinality(EntriesOf("directory")) <= DirCap
        /\ Cardinality(EntriesOf("file")) <= FileCap
        /\ \A k \in 1..(Len(fileList.entries) - 1) :
                fileList.entries[k].type = "file" =>
                    fileList.entries[k + 1].type = "file"
        /\ \A k \in 1..Len(fileList.entries) :
                LET path == fileList.entries[k].path
                IN  /\ path # <<>>
                    /\ path[1] # "/"
                    /\ path # extractedDir
                    /\ Len(path) >= Len(extractedDir) =>
                            SubSeq(path, 1, Len(extractedDir)) # extractedDir

\* The counts of the entries are those the upload handler of Spec works with.
EntryCountsAgree ==
    fileList.built =>
        /\ Cardinality(EntriesOf("directory")) = fileListOf(Len(allDirs), Len(allFiles)).dirs
        /\ Cardinality(EntriesOf("file")) = fileListOf(Len(allDirs), Len(allFiles)).files

C26_Witness ==
    /\ fileList.built
    /\ Len(allDirs) > DirCap /\ Len(allFiles) > FileCap
    /\ Cardinality(EntriesOf("directory")) = DirCap - 1
    /\ Cardinality(EntriesOf("file")) = FileCap
    /\ fileList.entries[1].path = <<"d1">>

\* A deploy run is past its copy step and has not returned.
PastCopy(i) ==
    req[i].pc \in {"install", "prisma", "mkdirPrisma", "cpDb", "restart"}

\* The paths no archive has a counterpart of.
NoCounterpart == {p \in Paths : \A a \in ArchiveIds : p \notin Archive(a).files}

\* C27: after the copy step of a deploy (that no other deploy overlaps), by
\* either strategy, every file the live root had before the deploy and the
\* extracted tree has no counterpart of is still there with the content it
\* had.
C27_CopyMerges ==
    \A i \in Runs("deploy") :
        (PastCopy(i) /\ req[i].alone) =>
            \A p \in NoCounterpart :
                req[i].liveAtStart[p] # "none" => live[p] = req[i].liveAtStart[p]

\* The same of the runs whose mirroring copy succeeded.
CopyMergesByRsync ==
    \A i \in Runs("deploy") :
        (PastCopy(i) /\ req[i].alone /\ req[i].fb = 0) =>
            \A p \in NoCounterpart :
                req[i].liveAtStart[p] # "none" => live[p] = req[i].liveAtStart[p]

\* The paths of entry k of the fallback's lists: what lies below the
\* directory, or the file itself.
EntryPaths(k) ==
    IF k <= Len(dirsToCopy) THEN Under(fbList[k])
    ELSE {<<fbList[k]>>} \cap Paths

Allowlisted(p) == \E k \in 1..Len(fbList) : p \in EntryPaths(k)

\* The paths the fallback may write: those of the entries that exist in the
\* extracted tree.
FallbackMayWrite == UNION {EntryPaths(k) : k \in {j \in 1..Len(fbList) : SrcExists(j)}}

\* A deploy run whose mirroring copy failed has just finished its fallback.
FallbackDone(i) ==
    /\ req[i].kind = "deploy" /\ req[i].pc = "install"
    /\ req[i].fb > 0 /\ req[i].alone

\* C28: when the mirroring copy has failed and the fallback has run, every
\* live path outside the allowlist is as the deploy found it, and so is
\* every allowlisted entry the extracted tree does not have (no upload
\* having replaced the extracted tree meanwhile).
C28_FallbackWritesAllowlistOnly ==
    \A i \in Slots :
        FallbackDone(i) =>
            /\ \A p \in Paths : ~Allowlisted(p) => live[p] = req[i].liveAtStart[p]
            /\ Runs("upload") = {} =>
                \A p \in Paths \ FallbackMayWrite : live[p] = req[i].liveAtStart[p]

\* The same of the deploys whose mirroring copy failed without having
\* written anything.
FallbackWritesAllowlistOnlyAfterCleanFailure ==
    \A i \in Slots :
        (FallbackDone(i) /\ ~req[i].partial) =>
            /\ \A p \in Paths : ~Allowlisted(p) => live[p] = req[i].liveAtStart[p]
            /\ Runs("upload") = {} =>
                \A p \in Paths \ FallbackMayWrite : live[p] = req[i].liveAtStart[p]

\* Every step of the fallback itself writes nothing but the paths of the
\* entry it is at, and it is at an entry only if the extracted tree had the
\* entry when the handler tested it.
FallbackStepsWriteOwnEntryOnly ==
    [][\A i \in Slots :
          /\ (req[i].kind = "deploy" /\ req[i].pc \in {"fbRm", "fbMkdir", "fbCpDir", "fbCpFile"}
                 /\ req'[i] # req[i])
                => \A p \in Paths \ EntryPaths(req[i].fb) : live'[p] = live[p]
          /\ (req'[i].kind = "deploy" /\ req'[i].pc \in {"fbRm", "fbMkdir", "fbCpFile"}
                 /\ req'[i].fb # req[i].fb)
                => SrcExists(req'[i].fb)]_vars

\* How far down the handler an await of the deploy is: Backup, Copy (by
\* rsync, then by the fallback), Install, Migrate, DataCopy, Restart.
DeployRank(pc) ==
    CASE pc = "mkdirBackup" -> 1
      [] pc = "rsync" -> 2
      [] pc \in {"fbRm", "fbMkdir", "fbCpDir", "fbCpFile"} -> 3
      [] pc = "install" -> 4
      [] pc = "prisma" -> 5
      [] pc \in {"mkdirPrisma", "cpDb"} -> 6
      [] pc = "restart" -> 7
      [] OTHER -> 8

\* C29: a deploy run writes the restart sentinel only in the step that ends
\* its last await, the one of the write itself, which no await of Backup,
\* Copy, Install, Migrate or DataCopy follows (the run never goes back up the
\* handler); nothing but a deploy at that await writes the sentinel; and a
\* run that has written it takes no further step: it writes it once and
\* changes nothing after, its record changing only when a new request
\* replaces it.
C29_SentinelLast ==
    [][\A i \in Slots :
          /\ (req'[i].sentinel /\ ~req[i].sentinel) =>
                /\ At(i, "deploy", "restart")
                /\ req'[i].pc = "done" /\ req'[i].code = 200
                /\ req[i].fb \in {0, Len(fbList) + 1}
                /\ backupDir
                /\ live' = live
          /\ restartFile' # restartFile =>
                \E j \in Slots : At(j, "deploy", "restart") /\ req'[j].sentinel
          /\ (req[i].kind = "deploy" /\ InFlight(i) /\ InFlight(i)') =>
                DeployRank(req'[i].pc) >= DeployRank(req[i].pc)
          /\ req[i].sentinel =>
                \/ req'[i] = req[i]
                \/ req[i].pc = "done" /\ started' = started + 1 /\ ~req'[i].sentinel
      ]_vars

\* A deploy has written the sentinel after its install failed and its
\* migration was skipped.
C29_Witness ==
    \E i \in Runs("deploy") :
        /\ req[i].sentinel /\ restartFile
        /\ req[i].pc = "done" /\ req[i].code = 200
        /\ "install" \in req[i].fails /\ "prisma" \in req[i].skipped

\* The first two requests were deploys, the second arriving after the first
\* had returned, and both have returned: nothing else has run.
TwoDeploysInSuccession ==
    /\ started = 2
    /\ \A i \in {1, 2} : req[i].kind = "deploy" /\ req[i].pc = "done" /\ req[i].alone

\* The external tools and the file system calls did in the second run what
\* they did in the first: the same copy strategy, with the same partial
\* write, up to the same entry, the same await that threw, the same
\* non-fatal failures.
SameToolBehaviour ==
    /\ req[1].fb = req[2].fb
    /\ req[1].partial = req[2].partial
    /\ req[1].thrownAt = req[2].thrownAt
    /\ req[1].fails = req[2].fails

\* C30: of two deploys in succession on the same extracted tree, the tools
\* behaving the same, the second answers as the first did, leaves the live
\* root as the first left it, and is not rejected unless the first was.
C30_DeployIdempotent ==
    (TwoDeploysInSuccession /\ SameToolBehaviour) =>
        /\ req[2].code = req[1].code
        /\ req[2].status = req[1].status
        /\ req[2].seen = req[1].seen
        /\ live = req[2].liveAtStart
        /\ req[1].code # 400 => req[2].code # 400

\* Two successful deploys in succession, the first of which changed the
\* live root.
C30_Witness ==
    /\ TwoDeploysInSuccession /\ SameToolBehaviour
    /\ req[1].code = 200 /\ req[2].code = 200
    /\ req[2].liveAtStart # req[1].liveAtStart
    /\ restartFile

\* Every upload there has been has returned, and ended in error because
\* its extraction tool failed or its archive was empty.
LastUploadFailed ==
    /\ Runs("upload") # {}
    /\ \A j \in Runs("upload") :
          /\ req[j].pc = "done" /\ req[j].code = 500 /\ req[j].thrownAt = ""
          /\ req[j].tool = "failed" \/ (req[j].tool = "ok" /\ req[j].items = 0)

\* C31: a deploy that arrives after an upload that ended in error (the
\* extraction tool failed, or the archive was empty) is answered at its Init
\* step with the validation error: it does not go on to copy what the upload
\* left in the extraction directory.
C31_DeployNeedsSuccessfulUpload ==
    [][\A i \in Slots :
          (req[i].pc = "idle" /\ req'[i].kind = "deploy" /\ LastUploadFailed)
              => req'[i].pc = "done" /\ req'[i].code = 400]_vars

\* C32: within a deploy run (that no other deploy overlaps), a poll reads
\* phase success with progress 100 only once the run has written the
\* restart sentinel, and a run whose write of the sentinel threw, the record
\* reading success by then, does not end in phase error.
C32_SuccessOnlyAfterSentinel ==
    \A i \in Runs("deploy") :
        req[i].alone =>
            /\ (InFlight(i) /\ DeployGET.status = "success" /\ DeployGET.progress = 100)
                  => req[i].sentinel
            /\ (req[i].pc = "done" /\ req[i].thrownAt = "restart")
                  => req[i].seen # "error"

\* Before the await of the sentinel write no poll reads success.
NoSuccessBeforeRestartAwait ==
    \A i \in Runs("deploy") :
        (InFlight(i) /\ req[i].alone /\ req[i].pc # "restart")
            => DeployGET.status # "success"

\* C33: the step in which a deploy run (that no other deploy overlaps) ends
\* in its catch leaves the status record in phase error with a non-empty
\* error and with the step identifier of the step whose await threw, one of
\* backup, copy and restart.
C33_ErrorNamesFatalStep ==
    [][\A i \in Slots :
          (/\ req[i].kind = "deploy" /\ InFlight(i) /\ req[i].alone
           /\ req'[i].pc = "done" /\ req'[i].thrownAt # "")
          => /\ deployStatus'.status = "error"
             /\ deployStatus'.error # ""
             /\ StepAt(req[i].pc) \in {"backup", "copy", "restart"}
             /\ deployStatus'.step = StepAt(req[i].pc)]_vars

\* The same of the runs that end in their catch before the restart.
ErrorNamesFatalStepBeforeRestart ==
    [][\A i \in Slots :
          (/\ req[i].kind = "deploy" /\ InFlight(i) /\ req[i].alone
           /\ req'[i].pc = "done" /\ req'[i].thrownAt # ""
           /\ req[i].pc # "restart")
          => /\ deployStatus'.status = "error"
             /\ deployStatus'.error # ""
             /\ StepAt(req[i].pc) \in {"backup", "copy"}
             /\ deployStatus'.step = StepAt(req[i].pc)]_vars

====
